---- MODULE Spec2Model ----
(***************************************************************************)
(* A/B-test statistics of avisionh/abtest.                                 *)
(*                                                                         *)
(*   src/src/data_wrangle.py         the cleaning script (SpecClean)       *)
(*   src/src/utils/helper_ab_test.py report_conversions (SpecReport),      *)
(*                                   get_sample_size and                   *)
(*                                   check_sample_sizes (SpecSample),      *)
(*                                   get_ab_test_ci (SpecCI)               *)
(*   src/notebooks/ab_test.py        the driver (SpecNotebook)             *)
(*                                                                         *)
(* Every program is a run from its inputs to its outcome.  A function call *)
(* ends either "returned" with a value or "raised" with an exception; what *)
(* it printed is kept in stdout.                                           *)
(***************************************************************************)
EXTENDS Integers, Sequences, FiniteSets, TLC

VARIABLES
    pc,          \* position of the running program
    raw_csv,     \* data/raw/ab_data.csv, as rows
    df,          \* the frame bound to df (data_wrangle.py, ab_test.py)
    df_clean,    \* the frame bound to df_clean (data_wrangle.py)
    interim_csv, \* data/interim/df_conversion_clean.csv, as rows, or NoFile
    args,        \* the arguments of the helper call under way
    result,      \* the outcome of the helper call or of the notebook
    stdout,      \* the lines printed so far
    nb_globals   \* the names the notebook has bound, with their values

vars == <<pc, raw_csv, df, df_clean, interim_csv, args, result, stdout, nb_globals>>

(***************************************************************************)
(* Bounds of the model.                                                    *)
(***************************************************************************)
MaxUsers == 2
MaxRows == 3
MaxCount == 3   \* largest group size and conversion count given to get_ab_test_ci
MaxSig == 2     \* largest practical_significance, in percent
RateMargin == 2 \* how far, in percent, baseline_rate is taken beyond [0, 1]

(***************************************************************************)
(* Data: one row per observation.                                          *)
(***************************************************************************)
Groups == {"control", "treatment"}
Pages == {"old_page", "new_page"}
UserIds == 1..MaxUsers

Rows == [user_id : UserIds, group : Groups, landing_page : Pages, converted : {0, 1}]

Frames == UNION {[1..n -> Rows] : n \in 0..MaxRows}

NoFile == "no_file"
NoFrame == <<>>
NoArgs == [fn |-> "none"]
NoResult == [kind |-> "none"]
\* Python values: None, a tuple, nan.
None == [type |-> "NoneType"]
Tuple(items) == [type |-> "tuple", items |-> items]
NaN == [type |-> "float", nan |-> TRUE]
IsNaN(x) == "nan" \in DOMAIN x
NoGlobals == [conversions_control |-> "unbound", total_users_control |-> "unbound",
              conversions_treatment |-> "unbound", total_users_treatment |-> "unbound"]

Returned(v) == [kind |-> "returned", value |-> v]
Raised(e) == [kind |-> "raised", exception |-> e]

(***************************************************************************)
(* data_wrangle.py                                                         *)
(***************************************************************************)

\* pandas drop_duplicates(subset=["group", "landing_page"], keep="first"):
\* the rows whose (group, landing_page) no earlier row has.
RECURSIVE KeepFirstGroupPage(_, _)
KeepFirstGroupPage(d, i) ==
    IF i > Len(d) THEN <<>>
    ELSE (IF \E j \in 1..(i - 1) : /\ d[j].group = d[i].group
                                   /\ d[j].landing_page = d[i].landing_page
          THEN <<>> ELSE <<d[i]>>) \o KeepFirstGroupPage(d, i + 1)

\* The slip inplace=True at line 7: df itself loses the rows.
drop_duplicates_group_page_inplace(d) == KeepFirstGroupPage(d, 1)

\* Line 7: df.drop_duplicates(subset=["group", "landing_page"], inplace=False).
\* The deduplicated copy is returned and dropped; df is what it was.
drop_duplicates_group_page(d) ==
    LET copy == KeepFirstGroupPage(d, 1)
    IN  d

mask_control_old(r) == r.group = "control" /\ r.landing_page = "old_page"

mask_treatment_new(r) == r.group = "treatment" /\ r.landing_page = "new_page"

\* The slip of testing the group alone for the treatment rows.
mask_group_only(r) == mask_control_old(r) \/ r.group = "treatment"

mask(r) == mask_control_old(r) \/ mask_treatment_new(r)

\* df.loc[mask].copy(): the rows the mask selects, in order.
loc_mask(d) == SelectSeq(d, mask)

\* pandas drop_duplicates(subset="user_id", keep="last"): the rows whose
\* user_id no later row has, in order.
RECURSIVE KeepLastUser(_, _)
KeepLastUser(d, i) ==
    IF i > Len(d) THEN <<>>
    ELSE (IF \E j \in (i + 1)..Len(d) : d[j].user_id = d[i].user_id
          THEN <<>> ELSE <<d[i]>>) \o KeepLastUser(d, i + 1)

drop_duplicates_user_id(d) == KeepLastUser(d, 1)

\* Line 3: df = pd.read_csv("data/raw/ab_data.csv").
InitClean ==
    /\ raw_csv \in Frames
    /\ df = raw_csv
    /\ pc = "wrangle_line7"
    /\ df_clean = NoFrame
    /\ interim_csv = NoFile
    /\ args = NoArgs
    /\ result = NoResult
    /\ stdout = <<>>
    /\ nb_globals = NoGlobals

\* Line 7.
DropDuplicatesGroupPage ==
    /\ pc = "wrangle_line7"
    /\ df' = drop_duplicates_group_page(df)
    /\ pc' = "wrangle_line10"
    /\ UNCHANGED <<raw_csv, df_clean, interim_csv, args, result, stdout, nb_globals>>

\* Lines 10-13.
LocMask ==
    /\ pc = "wrangle_line10"
    /\ df_clean' = loc_mask(df)
    /\ pc' = "wrangle_line16"
    /\ UNCHANGED <<raw_csv, df, interim_csv, args, result, stdout, nb_globals>>

\* Lines 16-24: the inspections change nothing; line 24 rebinds df_clean.
DropDuplicatesUserId ==
    /\ pc = "wrangle_line16"
    /\ df_clean' = drop_duplicates_user_id(df_clean)
    /\ pc' = "wrangle_line26"
    /\ UNCHANGED <<raw_csv, df, interim_csv, args, result, stdout, nb_globals>>

\* Line 26: df_clean.to_csv("data/interim/df_conversion_clean.csv").
ToCsv ==
    /\ pc = "wrangle_line26"
    /\ interim_csv' = df_clean
    /\ pc' = "wrangle_done"
    /\ UNCHANGED <<raw_csv, df, df_clean, args, result, stdout, nb_globals>>

NextClean == DropDuplicatesGroupPage \/ LocMask \/ DropDuplicatesUserId \/ ToCsv

SpecClean == InitClean /\ [][NextClean]_vars

(***************************************************************************)
(* helper_ab_test.py: report_conversions                                   *)
(***************************************************************************)

\* The slip of not filtering on the group: every row is taken.
df_filter_all(data, group_filter) == data

\* Line 62: data[data[group_col] == group_filter].
df_filter(data, group_filter) == SelectSeq(data, LAMBDA r : r.group = group_filter)

\* Line 63: df_filter[page_col].unique(), the distinct pages in the order of
\* their first appearance.
RECURSIVE Unique(_, _)
Unique(d, i) ==
    IF i > Len(d) THEN <<>>
    ELSE (IF \E j \in 1..(i - 1) : d[j].landing_page = d[i].landing_page
          THEN <<>> ELSE <<d[i].landing_page>>) \o Unique(d, i + 1)

page_seen(d) == Unique(d, 1)

\* Line 72: df_filter[convert_col].sum().
RECURSIVE SumConverted(_, _)
SumConverted(d, i) ==
    IF i > Len(d) THEN 0 ELSE d[i].converted + SumConverted(d, i + 1)

conversions(d) == SumConverted(d, 1)

\* Line 73: df_filter[convert_col].count(), the rows (none is missing).
total_users(d) == Len(d)

\* Lines 75-76: round(total_users / data[group_col].count() * 100, 2), in
\* hundredths of a percent, rounded to the nearest.
percent_page(d, data) == (2 * total_users(d) * 10000 + Len(data)) \div (2 * Len(data))

\* Line 81: conversions / total_users of two numpy integers: their quotient,
\* or nan (with a warning, not an exception) when the divisor is 0.
TrueDivide(a, b) == IF b = 0 THEN NaN ELSE [type |-> "float", num |-> a, den |-> b]

\* Lines 61-84.  The value handed back and the line printed.  The branch of
\* line 66 ends without a return statement: the call returns None.
report_conversions(data, group_filter) ==
    LET d == df_filter(data, group_filter)
    IN  IF Len(page_seen(d)) # 1
        THEN [out |-> Returned(None),
              line |-> [text |-> "Have non-singular pages seen", group |-> group_filter]]
        ELSE [out |-> Returned(Tuple(<<conversions(d), total_users(d),
                                       TrueDivide(conversions(d), total_users(d))>>)),
              line |-> [text |-> "Percentage of users who saw", group |-> group_filter,
                        page_seen |-> page_seen(d),
                        percent_page |-> percent_page(d, data)]]

InitReport ==
    /\ args \in [fn : {"report_conversions"}, data : Frames, group_filter : Groups]
    /\ pc = "call"
    /\ raw_csv = NoFrame
    /\ df = NoFrame
    /\ df_clean = NoFrame
    /\ interim_csv = NoFile
    /\ result = NoResult
    /\ stdout = <<>>
    /\ nb_globals = NoGlobals

ReportConversions ==
    /\ pc = "call"
    /\ args.fn = "report_conversions"
    /\ LET r == report_conversions(args.data, args.group_filter)
       IN  /\ result' = r.out
           /\ stdout' = Append(stdout, r.line)
    /\ pc' = "done"
    /\ UNCHANGED <<raw_csv, df, df_clean, interim_csv, args, nb_globals>>

NextReport == ReportConversions

SpecReport == InitReport /\ [][NextReport]_vars

(***************************************************************************)
(* notebooks/ab_test.py, run on the file data_wrangle.py wrote.            *)
(***************************************************************************)

\* Python's a, b = value: which exception the unpacking raises, or "ok".
Unpack2(value) ==
    IF value.type # "tuple" THEN "TypeError"
    ELSE IF Len(value.items) # 2 THEN "ValueError"
    ELSE "ok"

\* Line 5: df = pd.read_csv("data/interim/df_conversion_clean.csv").
ReadCsv ==
    /\ pc = "wrangle_done"
    /\ df' = interim_csv
    /\ pc' = "nb_line7"
    /\ UNCHANGED <<raw_csv, df_clean, interim_csv, args, result, stdout, nb_globals>>

\* Lines 7-13 (control) and lines 15-21 (treatment): the call of
\* report_conversions and the binding of its value to two names.
NotebookReport ==
    /\ pc \in {"nb_line7", "nb_line15"}
    /\ LET group == IF pc = "nb_line7" THEN "control" ELSE "treatment"
           r == report_conversions(df, group)
           unpacked == Unpack2(r.out.value)
       IN  /\ stdout' = Append(stdout, r.line)
           /\ IF unpacked = "ok"
              THEN /\ nb_globals' =
                          IF group = "control"
                          THEN [nb_globals EXCEPT !.conversions_control = r.out.value.items[1],
                                                  !.total_users_control = r.out.value.items[2]]
                          ELSE [nb_globals EXCEPT !.conversions_treatment = r.out.value.items[1],
                                                  !.total_users_treatment = r.out.value.items[2]]
                   /\ pc' = IF group = "control" THEN "nb_line15" ELSE "nb_done"
                   /\ result' = result
              ELSE /\ nb_globals' = nb_globals
                   /\ pc' = "nb_raised"
                   /\ result' = Raised(unpacked)
    /\ UNCHANGED <<raw_csv, df, df_clean, interim_csv, args>>

NextNotebook == NextClean \/ ReadCsv \/ NotebookReport

SpecNotebook == InitClean /\ [][NextNotebook]_vars

(***************************************************************************)
(* Numbers.  Python floats are fixed-point integers here: rates and        *)
(* standard deviations in thousandths, variances and interval bounds in    *)
(* millionths, angles in thousandths of a radian, z scores in thousandths, *)
(* sample sizes in tenths.  Probabilities given as arguments               *)
(* (baseline_rate, practical_significance, confidence_level, sensitivity)  *)
(* are in percent.                                                         *)
(***************************************************************************)
Abs(x) == IF x < 0 THEN 0 - x ELSE x

\* math.sqrt of n >= 0, rounded down: the r in lo..hi with r*r <= n < (r+1)^2.
RECURSIVE SqrtBetween(_, _, _)
SqrtBetween(n, lo, hi) ==
    IF lo >= hi THEN lo
    ELSE LET mid == (lo + hi + 1) \div 2
         IN  IF mid * mid <= n THEN SqrtBetween(n, mid, hi)
             ELSE SqrtBetween(n, lo, mid - 1)

Sqrt(n) == SqrtBetween(n, 0, 2000)

\* scipy.stats.norm.ppf at the quantiles k/200, k = 1..199, in thousandths.
NormPpfTable ==
  <<
    -2576, -2326, -2170, -2054, -1960, -1881, -1812, -1751, -1695, -1645, -1598, -1555,
    -1514, -1476, -1440, -1405, -1372, -1341, -1311, -1282, -1254, -1227, -1200, -1175,
    -1150, -1126, -1103, -1080, -1058, -1036, -1015, -994, -974, -954, -935, -915,
    -896, -878, -860, -842, -824, -806, -789, -772, -755, -739, -722, -706,
    -690, -674, -659, -643, -628, -613, -598, -583, -568, -553, -539, -524,
    -510, -496, -482, -468, -454, -440, -426, -412, -399, -385, -372, -358,
    -345, -332, -319, -305, -292, -279, -266, -253, -240, -228, -215, -202,
    -189, -176, -164, -151, -138, -126, -113, -100, -88, -75, -63, -50,
    -38, -25, -13, 0, 13, 25, 38, 50, 63, 75, 88, 100,
    113, 126, 138, 151, 164, 176, 189, 202, 215, 228, 240, 253,
    266, 279, 292, 305, 319, 332, 345, 358, 372, 385, 399, 412,
    426, 440, 454, 468, 482, 496, 510, 524, 539, 553, 568, 583,
    598, 613, 628, 643, 659, 674, 690, 706, 722, 739, 755, 772,
    789, 806, 824, 842, 860, 878, 896, 915, 935, 954, 974, 994,
    1015, 1036, 1058, 1080, 1103, 1126, 1150, 1175, 1200, 1227, 1254, 1282,
    1311, 1341, 1372, 1405, 1440, 1476, 1514, 1555, 1598, 1645, 1695, 1751,
    1812, 1881, 1960, 2054, 2170, 2326, 2576
  >>
\* The quantile q200/200.
NormPpf(q200) == NormPpfTable[q200]

\* numpy arcsin(sqrt(p)) at p = k/100, k = 0..100 (entry k + 1), in
\* thousandths of a radian.
ArcsinSqrtTable ==
  <<
    0, 100, 142, 174, 201, 226, 247, 268, 287, 305, 322, 338,
    354, 369, 383, 398, 412, 425, 438, 451, 464, 476, 488, 500,
    512, 524, 535, 546, 558, 569, 580, 591, 601, 612, 623, 633,
    644, 654, 664, 674, 685, 695, 705, 715, 725, 735, 745, 755,
    765, 775, 785, 795, 805, 815, 825, 835, 846, 856, 866, 876,
    886, 896, 907, 917, 927, 938, 948, 959, 970, 980, 991, 1002,
    1013, 1024, 1036, 1047, 1059, 1071, 1083, 1095, 1107, 1120, 1133, 1146,
    1159, 1173, 1187, 1202, 1217, 1233, 1249, 1266, 1284, 1303, 1323, 1345,
    1369, 1397, 1429, 1471, 1571
  >>

\* nan outside [0, 1], as numpy gives it (with a warning, not an exception).
ArcsinSqrt(p100) ==
    IF p100 < 0 \/ p100 > 100 THEN NaN
    ELSE [type |-> "float", milli |-> ArcsinSqrtTable[p100 + 1]]

(***************************************************************************)
(* helper_ab_test.py: get_ab_test_ci                                       *)
(***************************************************************************)
ConfidenceLevels == 1..99
Counts == 0..MaxCount

\* Lines 218-219: conversions / total_users of two Python ints, in
\* thousandths.
conversion_rate(conv, total) == (conv * 1000) \div total

\* Lines 223-230, in millionths.
variance(rate_control, rate_treatment, total_users_control, total_users_treatment) ==
    (rate_treatment * (1000 - rate_treatment)) \div total_users_treatment
        + (rate_control * (1000 - rate_control)) \div total_users_control

\* Line 232: the argument of st.norm.ppf, q = (1 - confidence_level) / 2,
\* as the number of 200ths.
ppf_q(confidence_level) == 100 - confidence_level

\* The slip of leaving abs() out at line 232.
z_score_signed(confidence_level) == NormPpf(ppf_q(confidence_level))

\* Line 232: abs(st.norm.ppf(q=(1 - confidence_level) / 2)).
z_score(confidence_level) == Abs(NormPpf(ppf_q(confidence_level)))

\* Lines 216-240.
get_ab_test_ci(a) ==
    IF a.total_users_control = 0 \/ a.total_users_treatment = 0
    THEN Raised("ZeroDivisionError")
    ELSE LET conversion_rate_control ==
                 conversion_rate(a.conversions_control, a.total_users_control)
             conversion_rate_treatment ==
                 conversion_rate(a.conversions_treatment, a.total_users_treatment)
             conversion_mean == conversion_rate_treatment - conversion_rate_control
             v == variance(conversion_rate_control, conversion_rate_treatment,
                           a.total_users_control, a.total_users_treatment)
         IN  IF v < 0
             THEN Raised("ValueError")  \* math.sqrt: math domain error
             ELSE LET sd == Sqrt(v)
                      z == z_score(a.confidence_level)
                      lower_bound == conversion_mean * 1000 - z * sd
                      upper_bound == conversion_mean * 1000 + z * sd
                  IN  Returned(Tuple(<<lower_bound, upper_bound>>))

InitCI ==
    /\ args \in [fn : {"get_ab_test_ci"},
                 conversions_control : Counts, conversions_treatment : Counts,
                 total_users_control : Counts, total_users_treatment : Counts,
                 confidence_level : ConfidenceLevels]
    /\ pc = "call"
    /\ raw_csv = NoFrame
    /\ df = NoFrame
    /\ df_clean = NoFrame
    /\ interim_csv = NoFile
    /\ result = NoResult
    /\ stdout = <<>>
    /\ nb_globals = NoGlobals

GetAbTestCi ==
    /\ pc = "call"
    /\ args.fn = "get_ab_test_ci"
    /\ result' = get_ab_test_ci(args)
    /\ pc' = "done"
    /\ UNCHANGED <<raw_csv, df, df_clean, interim_csv, args, stdout, nb_globals>>

NextCI == GetAbTestCi

SpecCI == InitCI /\ [][NextCI]_vars

(***************************************************************************)
(* helper_ab_test.py: get_sample_size and check_sample_sizes               *)
(***************************************************************************)
BaselineRates == (0 - RateMargin)..(100 + RateMargin)
PracticalSignificances == 1..MaxSig
Alphas == {1, 5, 10}
Sensitivities == {80, 90}
GroupSizes == {0, 500, 20000, 100000}

PyInt(n) == [type |-> "int", v |-> n]
PyFloat(n10) == [type |-> "float", tenths |-> n10]

\* Line 126: sms.proportion_effectsize(prop1, prop2),
\* 2 * (arcsin(sqrt(prop1)) - arcsin(sqrt(prop2))); nan when either is nan.
proportion_effectsize(prop1, prop2) ==
    IF IsNaN(ArcsinSqrt(prop1)) \/ IsNaN(ArcsinSqrt(prop2)) THEN NaN
    ELSE [type |-> "float",
          milli |-> 2 * (ArcsinSqrt(prop1).milli - ArcsinSqrt(prop2).milli)]

effect_size(a) ==
    proportion_effectsize(a.baseline_rate, a.baseline_rate + a.practical_significance)

\* Line 129: sms.NormalIndPower().solve_power(effect_size, power, alpha,
\* ratio=1) for a finite effect size other than 0: the nobs1 at which the
\* two-sided z test of two equal groups has the power,
\* 2 * (z_(1 - alpha/2) + z_power)^2 / effect_size^2, in tenths.
solve_power(es, power, alpha) ==
    LET z == NormPpf(200 - alpha) + NormPpf(2 * power)
    IN  PyFloat((2 * z * z * 10) \div (es.milli * es.milli))

\* Line 132: round(sample_size), to the nearest integer, halves to the even.
Round(x) ==
    LET q == x.tenths \div 10
        r == x.tenths % 10
    IN  IF r > 5 \/ (r = 5 /\ q % 2 = 1) THEN q + 1 ELSE q

RequiredLine(n) == [text |-> "Required sample size", per_group |-> n]

\* What the libraries make of an effect size of nan is not fixed by this
\* code: the solver or round() raises, or a value that is no sample size
\* comes back and is printed.
NanOutcomes ==
    {[out |-> Raised("ValueError"), lines |-> <<>>],
     [out |-> Returned(NaN), lines |-> <<RequiredLine("nan")>>]}

\* Lines 125-135: the possible outcomes, each with the lines printed.  No
\* argument is validated.
get_sample_size(a) ==
    IF IsNaN(effect_size(a)) THEN NanOutcomes
    ELSE LET sample_size == solve_power(effect_size(a), a.sensitivity, a.confidence_level)
         IN  {[out |-> Returned(sample_size),
               lines |-> <<RequiredLine(Round(sample_size))>>]}

\* Python's x & y: defined for two ints, TypeError when either is a float.
RECURSIVE NatAnd(_, _)
NatAnd(x, y) ==
    IF x = 0 \/ y = 0 THEN 0
    ELSE (x % 2) * (y % 2) + 2 * NatAnd(x \div 2, y \div 2)

BitAnd(x, y) ==
    IF x.type = "int" /\ y.type = "int" THEN PyInt(NatAnd(x.v, y.v))
    ELSE Raised("TypeError")

\* A Python number in tenths, for the comparisons.
Tenths(x) == IF x.type = "int" THEN x.v * 10 ELSE x.tenths

VerdictLine(t) == [text |-> t]

BothSufficient == "Control and treatment groups are sufficiently large"
TreatmentInsufficient == "Treatment group not sufficiently large"
ControlInsufficient == "Control group not sufficiently large"
BothInsufficient == "Control and treatment groups not sufficiently large"

\* Lines 164-177.  & binds tighter than the comparisons, so each condition
\* is the chain  control <cmp> (sample_size & treatment) <cmp> sample_size,
\* and sample_size & treatment is evaluated first.
verdict(control, treatment, sample_size) ==
    LET t == BitAnd(sample_size, treatment)
    IN  IF t = Raised("TypeError") THEN t
        ELSE IF Tenths(control) >= Tenths(t) /\ Tenths(t) >= Tenths(sample_size)
        THEN Returned(BothSufficient)
        ELSE IF Tenths(control) >= Tenths(t) /\ Tenths(t) < Tenths(sample_size)
        THEN Returned(TreatmentInsufficient)
        ELSE IF Tenths(control) < Tenths(t) /\ Tenths(t) >= Tenths(sample_size)
        THEN Returned(ControlInsufficient)
        ELSE Returned(BothInsufficient)

\* Lines 162-179, after one outcome o of get_sample_size.
check_sample_sizes(a, o) ==
    IF o.out.kind = "raised" THEN o
    ELSE LET v == verdict(PyInt(a.total_users_control),
                          PyInt(a.total_users_treatment), o.out.value)
         IN  IF v.kind = "raised"
             THEN [out |-> v, lines |-> o.lines]
             ELSE [out |-> Returned(None),
                   lines |-> Append(o.lines, VerdictLine(v.value))]

SampleArgs ==
    [fn : {"get_sample_size"}, baseline_rate : BaselineRates,
     practical_significance : PracticalSignificances,
     confidence_level : Alphas, sensitivity : Sensitivities]

CheckArgs ==
    [fn : {"check_sample_sizes"}, baseline_rate : BaselineRates,
     practical_significance : PracticalSignificances,
     confidence_level : Alphas, sensitivity : Sensitivities,
     total_users_control : GroupSizes, total_users_treatment : GroupSizes]

InitSample ==
    /\ args \in SampleArgs \cup CheckArgs
    /\ pc = "call"
    /\ raw_csv = NoFrame
    /\ df = NoFrame
    /\ df_clean = NoFrame
    /\ interim_csv = NoFile
    /\ result = NoResult
    /\ stdout = <<>>
    /\ nb_globals = NoGlobals

GetSampleSize ==
    /\ pc = "call"
    /\ args.fn = "get_sample_size"
    /\ \E o \in get_sample_size(args) :
           /\ result' = o.out
           /\ stdout' = stdout \o o.lines
    /\ pc' = "done"
    /\ UNCHANGED <<raw_csv, df, df_clean, interim_csv, args, nb_globals>>

CheckSampleSizes ==
    /\ pc = "call"
    /\ args.fn = "check_sample_sizes"
    /\ \E o \in get_sample_size(args) :
           LET c == check_sample_sizes(args, o)
           IN  /\ result' = c.out
               /\ stdout' = stdout \o c.lines
    /\ pc' = "done"
    /\ UNCHANGED <<raw_csv, df, df_clean, interim_csv, args, nb_globals>>

NextSample == GetSampleSize \/ CheckSampleSizes

SpecSample == InitSample /\ [][NextSample]_vars

(***************************************************************************)
(* Claims about the cleaning script.                                       *)
(***************************************************************************)
WrangleDone == pc = "wrangle_done"

ValidPairs == {<<"control", "old_page">>, <<"treatment", "new_page">>}

ValidlyPaired(r) == <<r.group, r.landing_page>> \in ValidPairs

\* The places of user u's validly paired rows in the raw data.
ValidRowsOf(u) ==
    {i \in 1..Len(raw_csv) : raw_csv[i].user_id = u /\ ValidlyPaired(raw_csv[i])}

LastValidRowOf(u) == CHOOSE i \in ValidRowsOf(u) : \A j \in ValidRowsOf(u) : j <= i

\* C4: in the cleaned dataset every user_id appears exactly once, every
\* control row has landing_page old_page and every treatment row has
\* landing_page new_page, whatever the raw data held.
C4_CleanedDatasetInvariant ==
    WrangleDone =>
        /\ \A i, j \in 1..Len(interim_csv) :
               i # j => interim_csv[i].user_id # interim_csv[j].user_id
        /\ \A i \in 1..Len(interim_csv) :
               /\ interim_csv[i].group = "control"
                      => interim_csv[i].landing_page = "old_page"
               /\ interim_csv[i].group = "treatment"
                      => interim_csv[i].landing_page = "new_page"

\* A raw dataset with an invalidly paired row and a user repeated among the
\* validly paired ones has been cleaned to a non-empty dataset.
C4_Witness ==
    /\ WrangleDone
    /\ \E i \in 1..Len(raw_csv) : ~ValidlyPaired(raw_csv[i])
    /\ \E u \in UserIds : Cardinality(ValidRowsOf(u)) >= 2
    /\ Len(interim_csv) >= 1

\* C9: the cleaned dataset holds, for every user with a validly paired row,
\* exactly that user's last validly paired row of the raw data, unmodified,
\* also when a later invalidly paired row of the user exists; it holds no row
\* of a user without a validly paired row; and the kept rows are in the
\* order of the raw data.
C9_KeepsLastValidRow ==
    WrangleDone =>
        /\ \A u \in UserIds :
               LET kept == {k \in 1..Len(interim_csv) : interim_csv[k].user_id = u}
               IN  IF ValidRowsOf(u) = {}
                   THEN kept = {}
                   ELSE /\ Cardinality(kept) = 1
                        /\ \A k \in kept : interim_csv[k] = raw_csv[LastValidRowOf(u)]
        /\ \A k1, k2 \in 1..Len(interim_csv) :
               k1 < k2 => LastValidRowOf(interim_csv[k1].user_id)
                              < LastValidRowOf(interim_csv[k2].user_id)

\* A user's validly paired row is followed by an invalidly paired row of the
\* same user, and two users are kept.
C9_Witness ==
    /\ WrangleDone
    /\ \E i, j \in 1..Len(raw_csv) :
           /\ i < j
           /\ raw_csv[i].user_id = raw_csv[j].user_id
           /\ ValidlyPaired(raw_csv[i])
           /\ ~ValidlyPaired(raw_csv[j])
    /\ Len(interim_csv) = 2

(***************************************************************************)
(* Claims about report_conversions.                                        *)
(***************************************************************************)
ReportDone == pc = "done" /\ args.fn = "report_conversions"

\* The places of the selected group's rows in the data, and their pages.
GroupRows == {i \in 1..Len(args.data) : args.data[i].group = args.group_filter}

GroupPages == {args.data[i].landing_page : i \in GroupRows}

GroupConverted == {i \in GroupRows : args.data[i].converted = 1}

\* C3: when the selected rows show more than one distinct page,
\* report_conversions raises DataIntegrityError: it does not return, and
\* hands no value (not even None) back.
C3_RaisesDataIntegrityError ==
    (ReportDone /\ Cardinality(GroupPages) > 1)
        => result = Raised("DataIntegrityError")

\* C7: when the group filter selects no rows, report_conversions raises a
\* division-by-zero error and does not return.
C7_RaisesDivisionByZero ==
    (ReportDone /\ GroupRows = {})
        => result = Raised("ZeroDivisionError")

\* C5: when the selected group has at least one row, all with the same
\* page, report_conversions returns (conversions, total_users, rate) with
\* conversions the number of converted rows of the group, total_users the
\* number of rows of the group, conversions <= total_users and
\* rate = conversions / total_users in [0, 1]; the other group's rows count
\* for nothing.
C5_ReportValues ==
    (ReportDone /\ GroupRows # {} /\ Cardinality(GroupPages) = 1)
        => /\ result.kind = "returned"
           /\ result.value.type = "tuple"
           /\ Len(result.value.items) = 3
           /\ LET conv == result.value.items[1]
                  total == result.value.items[2]
                  rate == result.value.items[3]
              IN  /\ conv = Cardinality(GroupConverted)
                  /\ total = Cardinality(GroupRows)
                  /\ conv <= total
                  /\ ~IsNaN(rate)
                  /\ rate.den > 0
                  /\ rate.num * total = conv * rate.den
                  /\ 0 <= rate.num
                  /\ rate.num <= rate.den

\* The group has a converted and an unconverted row, the other group a
\* converted one, and the report was returned.
C5_Witness ==
    /\ ReportDone
    /\ Cardinality(GroupPages) = 1
    /\ Cardinality(GroupRows) = 2
    /\ Cardinality(GroupConverted) = 1
    /\ \E i \in 1..Len(args.data) :
           args.data[i].group # args.group_filter /\ args.data[i].converted = 1
    /\ result.kind = "returned"
    /\ result.value.type = "tuple"

(***************************************************************************)
(* Claims about the notebook.                                              *)
(***************************************************************************)
NotebookEnded == pc \in {"nb_done", "nb_raised"}

CleanedHasBothGroups ==
    /\ interim_csv # NoFile
    /\ \A g \in Groups : \E i \in 1..Len(interim_csv) : interim_csv[i].group = g

\* C10: on a cleaned dataset with both groups, each of the two calls of
\* report_conversions completes and binds its group's conversions and
\* total users, so that the notebook ends with all four names bound.
C10_NotebookBindsAllFour ==
    (NotebookEnded /\ CleanedHasBothGroups)
        => /\ pc = "nb_done"
           /\ \A n \in DOMAIN nb_globals : nb_globals[n] # "unbound"

(***************************************************************************)
(* Claims about get_ab_test_ci.                                            *)
(***************************************************************************)
CIDone == pc = "done" /\ args.fn = "get_ab_test_ci"

ValidCounts ==
    /\ args.total_users_control > 0
    /\ args.total_users_treatment > 0
    /\ args.conversions_control <= args.total_users_control
    /\ args.conversions_treatment <= args.total_users_treatment

\* The interval of the two-sided critical value: delta -+ z * sd, with
\* z = |ppf(1 - confidence_level / 2)|, the quantile (200 - level)/200.
TwoSidedQuantile == 200 - args.confidence_level

TwoSidedInterval ==
    LET p_c == (args.conversions_control * 1000) \div args.total_users_control
        p_t == (args.conversions_treatment * 1000) \div args.total_users_treatment
        delta == p_t - p_c
        sd == Sqrt((p_t * (1000 - p_t)) \div args.total_users_treatment
                       + (p_c * (1000 - p_c)) \div args.total_users_control)
        z == Abs(NormPpf(TwoSidedQuantile))
    IN  <<delta * 1000 - z * sd, delta * 1000 + z * sd>>

\* C2: for every confidence_level in (0, 1) and valid counts,
\* get_ab_test_ci returns (delta - z*sd, delta + z*sd) with z the absolute
\* value of the inverse normal CDF at the quantile 1 - confidence_level/2,
\* and that quantile is the argument given to the inverse CDF.
C2_TwoSidedCriticalValue ==
    (CIDone /\ ValidCounts)
        => /\ result.kind = "returned"
           /\ ppf_q(args.confidence_level) = TwoSidedQuantile
           /\ result.value.items = TwoSidedInterval

\* C6: for valid counts and a confidence_level in (0, 1), the returned pair
\* has lower_bound <= upper_bound.
C6_LowerAtMostUpper ==
    (CIDone /\ ValidCounts)
        => /\ result.kind = "returned"
           /\ result.value.type = "tuple"
           /\ Len(result.value.items) = 2
           /\ result.value.items[1] <= result.value.items[2]

\* Valid counts with differing rates gave an interval of positive width.
C6_Witness ==
    /\ CIDone
    /\ ValidCounts
    /\ args.conversions_control = 1
    /\ args.total_users_control = 3
    /\ args.conversions_treatment = 1
    /\ args.total_users_treatment = 2
    /\ result.kind = "returned"
    /\ result.value.items[1] < result.value.items[2]

(***************************************************************************)
(* Claims about get_sample_size and check_sample_sizes.                    *)
(***************************************************************************)
InOpenUnit(p100) == 0 < p100 /\ p100 < 100

ValidRates ==
    /\ InOpenUnit(args.baseline_rate)
    /\ InOpenUnit(args.baseline_rate + args.practical_significance)

PrintedRequired == \E i \in 1..Len(stdout) : stdout[i].text = "Required sample size"

\* The required size the estimator produced, in tenths.
Required ==
    solve_power(effect_size(args), args.sensitivity, args.confidence_level).tenths

\* The verdict the two comparisons define.
ComparisonVerdict ==
    LET c == args.total_users_control * 10 >= Required
        t == args.total_users_treatment * 10 >= Required
    IN  IF c /\ t THEN BothSufficient
        ELSE IF c /\ ~t THEN TreatmentInsufficient
        ELSE IF ~c /\ t THEN ControlInsufficient
        ELSE BothInsufficient

\* C1: for every control size, treatment size and required size produced by
\* the estimator, check_sample_sizes completes and reports exactly one
\* verdict, the one the two comparisons with the required size define.
C1_ReportsComparisonVerdict ==
    (pc = "done" /\ args.fn = "check_sample_sizes" /\ ~IsNaN(effect_size(args)))
        => /\ result.kind = "returned"
           /\ Len(stdout) = 2
           /\ stdout[2] = VerdictLine(ComparisonVerdict)

\* An invalid parameter signalled to the caller: an exception of that kind
\* (in Python, also the built-in ValueError).
InvalidParameterErrors == {"InvalidParameterError", "ValueError"}

\* C8: when baseline_rate, or baseline_rate + practical_significance, is
\* outside (0, 1), get_sample_size raises InvalidParameterError, returns no
\* sample size and prints no "Required sample size" line.
C8_RejectsInvalidRates ==
    (pc = "done" /\ args.fn = "get_sample_size" /\ ~ValidRates)
        => /\ result.kind = "raised"
           /\ result.exception \in InvalidParameterErrors
           /\ ~PrintedRequired

====
